---- MODULE Spec2Model ----
(***************************************************************************)
(* Model of the survey progress tracker of app.py: the configuration table *)
(* SURVEY_QUESTIONS, the session-backed progress record, and the two       *)
(* routes "/" (index) and "/survey/<category>" (survey).                   *)
(*                                                                         *)
(* Python strings that the code transforms or builds (category names,      *)
(* form field names, form values, badge names) are sequences of            *)
(* one-character strings, so that lower(), capitalize() and the f-strings  *)
(* are computed character by character.  Question texts are only copied    *)
(* by the code and are kept as TLA+ strings (two non-ASCII hyphens of the  *)
(* source are written "-").                                                *)
(***************************************************************************)
EXTENDS Integers, Sequences, FiniteSets, TLC

VARIABLES store, inflight, nreq, lastReq, lastResp

vars == <<store, inflight, nreq, lastReq, lastResp>>

(***************************************************************************)
(* Bounds of the model.                                                    *)
(***************************************************************************)
\* requests issued in a behaviour of the sequential specification
MaxRequests == 4
\* requests issued in a behaviour of the interleaved specification
MaxRaceRequests == 2

(***************************************************************************)
(* Strings.                                                                *)
(***************************************************************************)
LowerChars == <<"a","b","c","d","e","f","g","h","i","j","k","l","m",
                "n","o","p","q","r","s","t","u","v","w","x","y","z">>

UpperChars == <<"A","B","C","D","E","F","G","H","I","J","K","L","M",
                "N","O","P","Q","R","S","T","U","V","W","X","Y","Z">>

DigitChars == <<"0","1","2","3","4","5","6","7","8","9">>

\* str.lower() on one character
lower_char(ch) ==
    IF \E i \in 1..Len(UpperChars) : UpperChars[i] = ch
    THEN LowerChars[CHOOSE i \in 1..Len(UpperChars) : UpperChars[i] = ch]
    ELSE ch

\* str.upper() on one character
upper_char(ch) ==
    IF \E i \in 1..Len(LowerChars) : LowerChars[i] = ch
    THEN UpperChars[CHOOSE i \in 1..Len(LowerChars) : LowerChars[i] = ch]
    ELSE ch

\* category.lower()
str_lower(s) == [i \in 1..Len(s) |-> lower_char(s[i])]

\* category.capitalize(): first character upper case, the rest lower case
str_capitalize(s) ==
    IF s = <<>> THEN s
    ELSE <<upper_char(s[1])>> \o str_lower(Tail(s))

\* str(idx) inside an f-string, for a natural number
RECURSIVE int_str(_)
int_str(n) ==
    IF n < 10 THEN <<DigitChars[n + 1]>>
    ELSE int_str(n \div 10) \o <<DigitChars[(n % 10) + 1]>>

\* f"q{idx}"
field_name(idx) == <<"q">> \o int_str(idx)

\* f"{category.capitalize()} Champion"
badge_name(category) ==
    str_capitalize(category) \o <<" ","C","h","a","m","p","i","o","n">>

(***************************************************************************)
(* The configuration table.                                                *)
(***************************************************************************)
spiritual == <<"s","p","i","r","i","t","u","a","l">>
physical  == <<"p","h","y","s","i","c","a","l">>
mental    == <<"m","e","n","t","a","l">>

SURVEY_QUESTIONS ==
    (spiritual :> <<
        [level |-> 1, questions |-> <<
            "Did you set aside time for prayer or meditation today?",
            "Did you read a passage from a religious or philosophical text?">>],
        [level |-> 2, questions |-> <<
            "Have you engaged in a community service or outreach activity this week?",
            "Have you participated in a group worship, study or reflection session recently?">>],
        [level |-> 3, questions |-> <<
            "Do you feel your spiritual practice is deepening over time?",
            "Are you mentoring or supporting others in their spiritual journey?">>] >>)
    @@
    (physical :> <<
        [level |-> 1, questions |-> <<
            "Did you complete at least 30 minutes of physical activity today?",
            "Did you drink at least 8 cups of water today?">>],
        [level |-> 2, questions |-> <<
            "Did you eat a balanced meal with fruits and vegetables today?",
            "Have you consistently slept 7-8 hours per night this week?">>],
        [level |-> 3, questions |-> <<
            "Are you following a regular exercise routine that challenges you?",
            "Have you reached or maintained a healthy weight range?">>] >>)
    @@
    (mental :> <<
        [level |-> 1, questions |-> <<
            "Did you practice a stress-relief technique like mindfulness or deep breathing today?",
            "Did you take a break from screens and social media for at least 30 minutes?">>],
        [level |-> 2, questions |-> <<
            "Have you connected with a friend, family member or counselor to talk about how you're feeling?",
            "Did you spend time on a hobby or creative activity that you enjoy?">>],
        [level |-> 3, questions |-> <<
            "Are you regularly journaling or reflecting on your emotions?",
            "Do you feel you can manage stress and challenges in a healthy way?">>] >>)

\* SURVEY_QUESTIONS.keys(), in the order of the table
CategoryKeys == <<spiritual, physical, mental>>

Categories == DOMAIN SURVEY_QUESTIONS

\* len(SURVEY_QUESTIONS[category])
total_levels(category) == Len(SURVEY_QUESTIONS[category])

(***************************************************************************)
(* Requests: the inputs of the routes.                                     *)
(***************************************************************************)
\* path segments <category> that clients send: the three keys, a key in
\* another letter case, and a name that is not configured
UrlCategories ==
    { spiritual, physical, mental,
      <<"P","h","y","s","i","c","a","l">>,
      <<"y","o","g","a">> }

\* request.form (for a GET, the fields the client sends along): no field,
\* the first answer, the second answer with a field the form does not
\* have, and that extra field alone
NoForm == <<>>

FormValue == <<"3">>

Forms ==
    { NoForm,
      (<<"q","0">> :> FormValue),
      (<<"q","1">> :> FormValue) @@ (<<"l","e","v","e","l">> :> FormValue),
      (<<"l","e","v","e","l">> :> FormValue) }

Methods == {"GET", "POST"}

IndexRequests == { [route |-> "index", method |-> "GET",
                    category |-> <<>>, form |-> NoForm] }

SurveyRequests == { [route |-> "survey", method |-> m,
                     category |-> c, form |-> f] :
                    m \in Methods, c \in UrlCategories, f \in Forms }

Requests == IndexRequests \cup SurveyRequests

(***************************************************************************)
(* The session.  A session is the dictionary `data' (its only key is       *)
(* "progress") with the flag `modified' that item assignment sets; the     *)
(* store keeps one dictionary per client and is read when a request opens  *)
(* its session and written when a request that modified its session ends.  *)
(*                                                                         *)
(* lastReq and lastResp record the request that ended last and its         *)
(* response; lastReq.read is the stored dictionary its session was opened  *)
(* from and lastReq.replaced the stored dictionary when it ended.          *)
(***************************************************************************)
EmptyDict == <<>>

\* variant: levels start at 1
NewProgress_from_one ==
    [cat \in Categories |-> [level |-> 1, responses |-> <<>>, badges |-> <<>>]]

\* the value of session["progress"] built at first access
NewProgress ==
    [cat \in Categories |-> [level |-> 0, responses |-> <<>>, badges |-> <<>>]]

\* session["progress"] = value
session_set(session, key, value) ==
    [data |-> [k \in (DOMAIN session.data) \cup {key} |->
                 IF k = key THEN value ELSE session.data[k]],
     modified |-> TRUE]

open_session(stored) == [data |-> stored, modified |-> FALSE]

\* variant: a write keeps, per category, the stored entry when its level is
\* higher than the written one
save_session_merge(stored, session) ==
    IF ~session.modified THEN stored
    ELSE IF "progress" \notin DOMAIN stored THEN session.data
    ELSE [session.data EXCEPT !["progress"] =
            [c \in DOMAIN @ |->
                IF stored["progress"][c].level > @[c].level
                THEN stored["progress"][c] ELSE @[c]]]

\* variant: a write keeps, per category, the higher of the stored and the
\* written level, with the written responses and badges
save_session_merge_levels(stored, session) ==
    IF ~session.modified THEN stored
    ELSE IF "progress" \notin DOMAIN stored THEN session.data
    ELSE [session.data EXCEPT !["progress"] =
            [c \in DOMAIN @ |->
                IF stored["progress"][c].level > @[c].level
                THEN [@[c] EXCEPT !.level = stored["progress"][c].level]
                ELSE @[c]]]

save_session(stored, session) ==
    IF session.modified THEN session.data ELSE stored

\* variant: the record is rebuilt at every access
get_user_progress_reset(session) ==
    session_set(session, "progress", NewProgress)

get_user_progress(session) ==
    IF "progress" \notin DOMAIN session.data
    THEN session_set(session, "progress", NewProgress)
    ELSE session

(***************************************************************************)
(* The routes.  Each returns the session as the handler leaves it and the  *)
(* response.                                                               *)
(***************************************************************************)
Redirect == [kind |-> "redirect", to |-> "index"]

(***************************************************************************)
(* Floating point.  completed_levels / total_levels is a true division of  *)
(* two ints and yields a double; the product with 100 is a double; int()   *)
(* drops the fraction.  A positive double is [bits, exp]: a significand of *)
(* 53 bits, most significant first and starting with 1, worth the integer  *)
(* they spell times 2^exp.  Both operations round to nearest, ties to the  *)
(* even significand.                                                       *)
(***************************************************************************)
SignificandBits == 53

\* bits of a limb: products are formed limb by limb
LimbBits == 16

\* 2^i modulo m
RECURSIVE pow2mod(_, _)
pow2mod(i, m) ==
    IF i = 0 THEN 1 % m
    ELSE LET h == pow2mod(i \div 2, m)
         IN (((h * h) % m) * (IF i % 2 = 1 THEN 2 ELSE 1)) % m

\* the remainder left after n binary digits of r / den, for 0 <= r < den
div_rem(r, den, n) == (r * pow2mod(n, den)) % den

\* n binary digits of r / den after the point, for 0 <= r < den
div_bits(r, den, n) ==
    [i \in 1..n |-> (2 * div_rem(r, den, i - 1)) \div den]

\* bits + 1; the result is one bit longer when every bit was 1
bits_inc(bits) ==
    LET zeros == { i \in 1..Len(bits) : bits[i] = 0 }
    IN IF zeros = {} THEN <<1>> \o [i \in 1..Len(bits) |-> 0]
       ELSE LET j == CHOOSE i \in zeros : \A k \in zeros : k <= i
            IN [i \in 1..Len(bits) |->
                  IF i < j THEN bits[i] ELSE IF i = j THEN 1 ELSE 0]

\* the integer that the bits spell, for fewer than 31 bits
RECURSIVE bits_int(_)
bits_int(bits) ==
    IF bits = <<>> THEN 0
    ELSE 2 * bits_int(SubSeq(bits, 1, Len(bits) - 1)) + bits[Len(bits)]

\* the w low bits of an integer
int_bits(n, w) == [i \in 1..w |-> (n \div (2 ^ (w - i))) % 2]

\* bits without their leading zeros
bits_strip(bits) ==
    LET ones == { i \in 1..Len(bits) : bits[i] = 1 }
    IN IF ones = {} THEN <<>>
       ELSE SubSeq(bits, CHOOSE i \in ones : \A k \in ones : i <= k,
                   Len(bits))

\* the j-th limb of bits, counted from the least significant
bits_limb(bits, j) ==
    LET hi == Len(bits) - LimbBits * (j - 1)
        lo == IF hi - LimbBits + 1 < 1 THEN 1 ELSE hi - LimbBits + 1
    IN bits_int(SubSeq(bits, lo, hi))

\* the bits of limbs j.. of bits * k, with the carry of the limbs below
RECURSIVE limbs_times(_, _, _, _)
limbs_times(bits, k, j, carry) ==
    IF LimbBits * (j - 1) >= Len(bits) THEN int_bits(carry, LimbBits)
    ELSE LET v == bits_limb(bits, j) * k + carry
         IN limbs_times(bits, k, j + 1, v \div (2 ^ LimbBits))
            \o int_bits(v % (2 ^ LimbBits), LimbBits)

\* bits * k for an integer 0 < k < 2^15
bits_times(bits, k) == bits_strip(limbs_times(bits, k, 1, 0))

\* rounds bits (at least 53, starting with 1), worth 2^exp each and followed
\* by a nonzero rest when `sticky', to a double
round_double(bits, exp, sticky) ==
    LET extra == Len(bits) - SignificandBits
        kept == SubSeq(bits, 1, SignificandBits)
        dropped == SubSeq(bits, SignificandBits + 1, Len(bits))
        guard == extra > 0 /\ dropped[1] = 1
        rest == sticky \/ \E i \in 2..extra : dropped[i] = 1
        up == guard /\ (rest \/ kept[SignificandBits] = 1)
        raised == bits_inc(kept)
    IN IF ~up THEN [bits |-> kept, exp |-> exp + extra]
       ELSE IF Len(raised) = SignificandBits
       THEN [bits |-> raised, exp |-> exp + extra]
       ELSE [bits |-> SubSeq(raised, 1, SignificandBits),
             exp |-> exp + extra + 1]

\* num / den scaled by powers of two until 1 <= num / den < 2
RECURSIVE normalise(_, _, _)
normalise(num, den, e) ==
    IF num >= 2 * den THEN normalise(num, 2 * den, e + 1)
    ELSE IF num < den THEN normalise(2 * num, den, e - 1)
    ELSE [num |-> num, den |-> den, e |-> e]

\* a / b for ints a > 0, b > 0
float_div(a, b) ==
    LET n == normalise(a, b, 0)
        r == n.num - n.den
    IN round_double(<<1>> \o div_bits(r, n.den, SignificandBits),
                    n.e - SignificandBits,
                    div_rem(r, n.den, SignificandBits) # 0)

\* x * k for a double x > 0 and an int k > 0
float_times(x, k) == round_double(bits_times(x.bits, k), x.exp, FALSE)

\* int(x) for a double x > 0 with int(x) < 2^31
float_int(x) ==
    IF x.exp >= 0 THEN bits_int(x.bits) * (2 ^ x.exp)
    ELSE IF SignificandBits + x.exp <= 0 THEN 0
    ELSE bits_int(SubSeq(x.bits, 1, SignificandBits + x.exp))

\* variant: int() is applied to the quotient, before the product
percent_complete_int_first(completed_levels, total) ==
    (completed_levels \div total) * 100

\* int((completed_levels / total_levels) * 100)
percent_complete(completed_levels, total) ==
    IF completed_levels = 0 THEN 0
    ELSE float_int(float_times(float_div(completed_levels, total), 100))

\* None.  A value that may be None or an integer is written <<n>> when it
\* is the integer n.
None == <<>>

\* variant: a next level is offered up to and including the last level
category_info_offers_after_last(category, data) ==
    LET total == total_levels(category)
        completed_levels == data.level
    IN [name |-> str_capitalize(category),
        key |-> category,
        percent_complete |-> percent_complete(completed_levels, total),
        badges |-> data.badges,
        next_level |-> IF completed_levels <= total
                       THEN <<completed_levels + 1>> ELSE None]

category_info(category, data) ==
    LET total == total_levels(category)
        completed_levels == data.level
    IN [name |-> str_capitalize(category),
        key |-> category,
        percent_complete |-> percent_complete(completed_levels, total),
        badges |-> data.badges,
        next_level |-> IF completed_levels < total
                       THEN <<completed_levels + 1>> ELSE None]

index(session0) ==
    LET session == get_user_progress(session0)
        progress == session.data["progress"]
    IN [session |-> session,
        response |-> [kind |-> "index",
                      categories_info |->
                         [i \in 1..Len(CategoryKeys) |->
                            category_info(CategoryKeys[i],
                                          progress[CategoryKeys[i]])]]]

\* variant: the first level whose ordinal is at most current_level
level_lookup_at_most(category, current_level) ==
    LET levels == SURVEY_QUESTIONS[category]
        hits == { i \in 1..Len(levels) : levels[i].level <= current_level }
    IN IF hits = {} THEN None
       ELSE levels[CHOOSE i \in hits : \A j \in hits : i <= j]

\* variant: the level whose ordinal follows current_level
level_lookup_next(category, current_level) ==
    LET levels == SURVEY_QUESTIONS[category]
        hits == { i \in 1..Len(levels) : levels[i].level = current_level + 1 }
    IN IF hits = {} THEN None
       ELSE levels[CHOOSE i \in hits : \A j \in hits : i <= j]

\* next((lvl for lvl in SURVEY_QUESTIONS[category]
\*       if lvl["level"] == current_level), None)
level_lookup(category, current_level) ==
    LET levels == SURVEY_QUESTIONS[category]
        hits == { i \in 1..Len(levels) : levels[i].level = current_level }
    IN IF hits = {} THEN None
       ELSE levels[CHOOSE i \in hits : \A j \in hits : i <= j]

\* request.form.get(name, "")
form_get(form, name) == IF name \in DOMAIN form THEN form[name] ELSE <<>>

\* variant: the fields are numbered from 1
collect_answers_from_one(questions, form) ==
    [i \in 1..Len(questions) |->
        [question |-> questions[i],
         answer |-> form_get(form, field_name(i))]]

\* the answers collected by the loop over enumerate(level_data["questions"])
collect_answers(questions, form) ==
    [i \in 1..Len(questions) |->
        [question |-> questions[i],
         answer |-> form_get(form, field_name(i - 1))]]

\* int(text) for a string of decimal digits
RECURSIVE str_int(_)
str_int(text) ==
    IF text = <<>> THEN 0
    ELSE 10 * str_int(SubSeq(text, 1, Len(text) - 1))
         + (CHOOSE d \in 0..9 : DigitChars[d + 1] = text[Len(text)])

\* variant: the level stored is one more than the level presented
submit_skip_level(user_cat_data, category, current_level, total, level_data, form) ==
    [level |-> current_level + 1,
     responses |-> Append(user_cat_data.responses,
                     [level |-> current_level,
                      answers |-> collect_answers(level_data.questions, form)]),
     badges |-> IF current_level = total
                THEN Append(user_cat_data.badges, badge_name(category))
                ELSE user_cat_data.badges]

\* variant: the answers are not appended to responses
submit_no_append(user_cat_data, category, current_level, total, level_data, form) ==
    [level |-> current_level,
     responses |-> user_cat_data.responses,
     badges |-> IF current_level = total
                THEN Append(user_cat_data.badges, badge_name(category))
                ELSE user_cat_data.badges]

\* variant: a badge is awarded at every level
submit_badge_every_level(user_cat_data, category, current_level, total, level_data, form) ==
    [level |-> current_level,
     responses |-> Append(user_cat_data.responses,
                     [level |-> current_level,
                      answers |-> collect_answers(level_data.questions, form)]),
     badges |-> Append(user_cat_data.badges, badge_name(category))]

\* variant: the level recorded is the form's "level" field when it is sent
submit_level_from_form(user_cat_data, category, current_level, total, level_data, form) ==
    LET sent == form_get(form, <<"l","e","v","e","l">>)
        lvl == IF sent = <<>> THEN current_level ELSE str_int(sent)
    IN [level |-> lvl,
        responses |-> Append(user_cat_data.responses,
                        [level |-> lvl,
                         answers |-> collect_answers(level_data.questions,
                                                     form)]),
        badges |-> IF lvl = total
                   THEN Append(user_cat_data.badges, badge_name(category))
                   ELSE user_cat_data.badges]

\* the POST branch: the category's entry after the submission
submit(user_cat_data, category, current_level, total, level_data, form) ==
    LET answers == collect_answers(level_data.questions, form)
        appended == Append(user_cat_data.responses,
                           [level |-> current_level, answers |-> answers])
    IN [level |-> current_level,
        responses |-> appended,
        badges |-> IF current_level = total
                   THEN Append(user_cat_data.badges, badge_name(category))
                   ELSE user_cat_data.badges]

\* variant: the level to present is capped at the last level
survey_known_capped(session0, method, category, form) ==
    LET session == get_user_progress(session0)
        progress == session.data["progress"]
        user_cat_data == progress[category]
        total == total_levels(category)
        current_level == IF user_cat_data.level + 1 > total
                         THEN total ELSE user_cat_data.level + 1
        level_data == level_lookup(category, current_level)
    IN IF current_level > total
       THEN [session |-> session, response |-> Redirect]
       ELSE IF level_data = None
       THEN [session |-> session, response |-> Redirect]
       ELSE IF method = "POST"
       THEN [session |->
               session_set(session, "progress",
                  [progress EXCEPT ![category] =
                     submit(user_cat_data, category, current_level,
                            total, level_data, form)]),
             response |-> Redirect]
       ELSE [session |-> session,
             response |-> [kind |-> "survey",
                           category |-> category,
                           level |-> current_level,
                           questions |-> level_data.questions]]

\* variant: the categories share one entry, so a submission shows in all
survey_known_shared_entry(session0, method, category, form) ==
    LET session == get_user_progress(session0)
        progress == session.data["progress"]
        user_cat_data == progress[category]
        current_level == user_cat_data.level + 1
        total == total_levels(category)
        level_data == level_lookup(category, current_level)
    IN IF current_level > total
       THEN [session |-> session, response |-> Redirect]
       ELSE IF level_data = None
       THEN [session |-> session, response |-> Redirect]
       ELSE IF method = "POST"
       THEN [session |->
               session_set(session, "progress",
                  [c \in DOMAIN progress |->
                     submit(user_cat_data, category, current_level,
                            total, level_data, form)]),
             response |-> Redirect]
       ELSE [session |-> session,
             response |-> [kind |-> "survey",
                           category |-> category,
                           level |-> current_level,
                           questions |-> level_data.questions]]

\* survey() from the call of get_user_progress on, for a configured category
survey_known(session0, method, category, form) ==
    LET session == get_user_progress(session0)
        progress == session.data["progress"]
        user_cat_data == progress[category]
        current_level == user_cat_data.level + 1
        total == total_levels(category)
        level_data == level_lookup(category, current_level)
    IN IF current_level > total
       THEN [session |-> session, response |-> Redirect]
       ELSE IF level_data = None
       THEN [session |-> session, response |-> Redirect]
       ELSE IF method = "POST"
       THEN [session |->
               session_set(session, "progress",
                  [progress EXCEPT ![category] =
                     submit(user_cat_data, category, current_level,
                            total, level_data, form)]),
             response |-> Redirect]
       ELSE [session |-> session,
             response |-> [kind |-> "survey",
                           category |-> category,
                           level |-> current_level,
                           questions |-> level_data.questions]]

\* variant: the progress record is fetched before the category is checked
survey_init_first(session0, method, url_category, form) ==
    LET category == str_lower(url_category)
    IN IF category \notin DOMAIN SURVEY_QUESTIONS
       THEN [session |-> get_user_progress(session0), response |-> Redirect]
       ELSE survey_known(session0, method, category, form)

survey(session0, method, url_category, form) ==
    LET category == str_lower(url_category)
    IN IF category \notin DOMAIN SURVEY_QUESTIONS
       THEN [session |-> session0, response |-> Redirect]
       ELSE survey_known(session0, method, category, form)

\* the view function the request is routed to
dispatch(session, req) ==
    IF req.route = "index" THEN index(session)
    ELSE survey(session, req.method, req.category, req.form)

(***************************************************************************)
(* Sequential specification: requests of one client, one after the other.  *)
(* A request opens the session from the store, runs its view function and  *)
(* saves the session.                                                      *)
(***************************************************************************)
Clients == {"c1", "c2"}

NoReq == [route |-> "none"]

NoResp == [kind |-> "none"]

Init ==
    /\ store = [s \in {"c1"} |-> EmptyDict]
    /\ inflight = <<>>
    /\ nreq = 0
    /\ lastReq = NoReq
    /\ lastResp = NoResp

Serve(s, req) ==
    LET out == dispatch(open_session(store[s]), req)
    IN /\ nreq < MaxRequests
       /\ store' = [store EXCEPT ![s] = save_session(store[s], out.session)]
       /\ nreq' = nreq + 1
       /\ lastReq' = [client |-> s, read |-> store[s],
                      replaced |-> store[s]] @@ req
       /\ lastResp' = out.response
       /\ UNCHANGED inflight

GetIndex == \E s \in DOMAIN store : \E req \in IndexRequests : Serve(s, req)

GetSurvey ==
    \E s \in DOMAIN store : \E req \in SurveyRequests :
        req.method = "GET" /\ Serve(s, req)

PostSurvey ==
    \E s \in DOMAIN store : \E req \in SurveyRequests :
        req.method = "POST" /\ Serve(s, req)

Next == GetIndex \/ GetSurvey \/ PostSurvey

Spec == Init /\ [][Next]_vars

(***************************************************************************)
(* Interleaved specification: requests of several clients run              *)
(* concurrently.  Each request opens its own copy of its client's session  *)
(* (OpenRequest), runs its view function on that copy (RunView) and, when  *)
(* the session was modified, writes the copy back whole (SaveRequest).     *)
(* Nothing orders the requests of one client between these steps.          *)
(***************************************************************************)
RaceCategories == { spiritual, physical, <<"y","o","g","a">> }

RaceForms == { NoForm, (<<"q","0">> :> FormValue) }

RaceRequests ==
    { r \in Requests : /\ r.category \in RaceCategories \cup {<<>>}
                       /\ r.form \in RaceForms
                       /\ r.method = "GET" => r.form = NoForm }

\* the stored dictionary after `n' successive POST /survey/<category>
RECURSIVE after_posts(_, _, _)
after_posts(stored, category, n) ==
    IF n = 0 THEN stored
    ELSE LET out == survey(open_session(stored), "POST", category, NoForm)
         IN after_posts(save_session(stored, out.session), category, n - 1)

\* dictionaries a client's earlier requests leave in the store
SeedStores ==
    { EmptyDict,
      after_posts(EmptyDict, spiritual, total_levels(spiritual) - 1),
      after_posts(after_posts(EmptyDict, spiritual,
                              total_levels(spiritual) - 1),
                  physical, total_levels(physical)) }

RaceInit ==
    /\ store \in [Clients -> SeedStores]
    /\ store["c2"] = EmptyDict
    /\ inflight = <<>>
    /\ nreq = 0
    /\ lastReq = NoReq
    /\ lastResp = NoResp

OpenRequest ==
    \E s \in DOMAIN store : \E req \in RaceRequests :
        /\ nreq < MaxRaceRequests
        /\ nreq' = nreq + 1
        /\ inflight' = (nreq + 1 :> [client |-> s, req |-> req, pc |-> "opened",
                                     read |-> store[s],
                                     session |-> open_session(store[s]),
                                     response |-> NoResp]) @@ inflight
        /\ UNCHANGED <<store, lastReq, lastResp>>

RunView ==
    \E i \in DOMAIN inflight :
        /\ inflight[i].pc = "opened"
        /\ LET out == dispatch(inflight[i].session, inflight[i].req)
           IN inflight' = [inflight EXCEPT ![i].session = out.session,
                                           ![i].response = out.response,
                                           ![i].pc = "returned"]
        /\ UNCHANGED <<store, nreq, lastReq, lastResp>>

SaveRequest ==
    \E i \in DOMAIN inflight :
        /\ inflight[i].pc = "returned"
        /\ store' = [store EXCEPT ![inflight[i].client] =
                        save_session(@, inflight[i].session)]
        /\ inflight' = [j \in DOMAIN inflight \ {i} |-> inflight[j]]
        /\ lastReq' = [client |-> inflight[i].client,
                       read |-> inflight[i].read,
                       replaced |-> store[inflight[i].client]]
                      @@ inflight[i].req
        /\ lastResp' = inflight[i].response
        /\ UNCHANGED nreq

RaceNext == OpenRequest \/ RunView \/ SaveRequest

RaceSpec == RaceInit /\ [][RaceNext]_vars

(***************************************************************************)
(* Properties.                                                             *)
(***************************************************************************)
HasProgress(dict) == "progress" \in DOMAIN dict

\* level, responses and badges of a category in a stored dictionary; a
\* dictionary without a record counts as the record of a fresh session
LevelOf(dict, c) ==
    IF HasProgress(dict) THEN dict["progress"][c].level ELSE 0

ResponsesOf(dict, c) ==
    IF HasProgress(dict) THEN dict["progress"][c].responses ELSE <<>>

BadgesOf(dict, c) ==
    IF HasProgress(dict) THEN dict["progress"][c].badges ELSE <<>>

\* the request is a request to /survey/<c>, in any letter case
IsSurveyOf(req, c) ==
    req.route = "survey" /\ str_lower(req.category) = c

IsPostOf(req, c) == IsSurveyOf(req, c) /\ req.method = "POST"

\* the configured number of levels, as written in the table
TotalLevels == 3

Champion ==
    (spiritual :> <<"S","p","i","r","i","t","u","a","l"," ",
                    "C","h","a","m","p","i","o","n">>)
    @@ (physical :> <<"P","h","y","s","i","c","a","l"," ",
                      "C","h","a","m","p","i","o","n">>)
    @@ (mental :> <<"M","e","n","t","a","l"," ",
                    "C","h","a","m","p","i","o","n">>)

\* C1: in every state reached by any sequence of requests the stored level
\* of every category is between 0 and the category's number of levels, and
\* no request makes a stored level smaller or removes the record.
C1_LevelBoundedMonotone ==
    /\ [](\A s \in DOMAIN store : \A c \in Categories :
            HasProgress(store[s]) =>
               /\ store[s]["progress"][c].level >= 0
               /\ store[s]["progress"][c].level <= TotalLevels)
    /\ [][\A s \in DOMAIN store : \A c \in Categories :
            /\ HasProgress(store[s]) => HasProgress(store'[s])
            /\ LevelOf(store'[s], c) >= LevelOf(store[s], c)]_vars

\* a category was completed and a further POST to it was answered
C1_Witness ==
    \E c \in Categories :
        /\ IsPostOf(lastReq, c)
        /\ LevelOf(lastReq.read, c) = TotalLevels
        /\ LevelOf(store[lastReq.client], c) = TotalLevels

\* C2: a POST to a category whose level is n < total makes the level n+1
\* and the number of responses n+1, and a step changes the level or the
\* responses of a category only in this way.
C2_PostAdvancesByOne ==
    [][\A s \in DOMAIN store : \A c \in Categories :
         LET n == LevelOf(store[s], c)
             posted == lastReq'.client = s /\ IsPostOf(lastReq', c)
         IN /\ (posted /\ n < TotalLevels) =>
                  /\ HasProgress(store'[s])
                  /\ store'[s]["progress"][c].level = n + 1
                  /\ Len(store'[s]["progress"][c].responses) = n + 1
            /\ (\/ LevelOf(store'[s], c) # n
                \/ ResponsesOf(store'[s], c) # ResponsesOf(store[s], c)) =>
                  /\ posted
                  /\ n < TotalLevels
                  /\ LevelOf(store'[s], c) = n + 1]_vars

\* a POST took a category from level 1 to level 2
C2_Witness ==
    \E c \in Categories :
        /\ IsPostOf(lastReq, c)
        /\ LevelOf(lastReq.read, c) = 1
        /\ LevelOf(store[lastReq.client], c) = 2
        /\ Len(ResponsesOf(store[lastReq.client], c)) = 2

\* C3: in every reachable state the number of response records of every
\* category equals the category's level.
C3_ResponsesMatchLevel ==
    \A s \in DOMAIN store : \A c \in Categories :
        HasProgress(store[s]) =>
            Len(store[s]["progress"][c].responses)
                = store[s]["progress"][c].level

\* two categories hold responses, one of them three
C3_Witness ==
    \E s \in DOMAIN store : \E c, d \in Categories :
        /\ c # d
        /\ Len(ResponsesOf(store[s], c)) = TotalLevels
        /\ Len(ResponsesOf(store[s], d)) = 1

\* C4: a POST whose resolved level is the last level appends exactly the
\* badge "<Category> Champion" to the category's badges; a POST whose
\* resolved level is below the last level leaves the badges as they were.
C4_BadgeOnFinalLevelOnly ==
    [][\A s \in DOMAIN store : \A c \in Categories :
         LET resolved == LevelOf(store[s], c) + 1
         IN (lastReq'.client = s /\ IsPostOf(lastReq', c)) =>
              /\ resolved = TotalLevels =>
                    BadgesOf(store'[s], c)
                       = Append(BadgesOf(store[s], c), Champion[c])
              /\ resolved < TotalLevels =>
                    BadgesOf(store'[s], c) = BadgesOf(store[s], c)]_vars

\* the POST of the last level was made through a path in another letter
\* case and left the badge of the category
C4_Witness ==
    /\ IsPostOf(lastReq, physical)
    /\ lastReq.category # physical
    /\ LevelOf(lastReq.read, physical) = TotalLevels - 1
    /\ BadgesOf(store[lastReq.client], physical) = <<Champion[physical]>>

\* the level fields of the response records of a category, in order
RecordedLevels(dict, c) ==
    [i \in 1..Len(ResponsesOf(dict, c)) |-> ResponsesOf(dict, c)[i].level]

\* what a POST /survey/<url_category> with the form yields from a stored
\* dictionary: the response, and per category the level, the recorded
\* response levels and the badges of the dictionary it stores
PostOutcome(dict, url_category, form) ==
    LET out == survey(open_session(dict), "POST", url_category, form)
        after == save_session(dict, out.session)
    IN <<out.response, HasProgress(after),
         [c \in Categories |->
            <<LevelOf(after, c), RecordedLevels(after, c),
              BadgesOf(after, c)>>]>>

\* C5: from any reachable stored progress and for any path category, all
\* POSTs that differ only in their form fields produce one and the same
\* response, levels, recorded response levels and badges; whatever the
\* form holds, the level of a category advances by at most one and the
\* other categories keep theirs.
C5_LevelIndependentOfForm ==
    \A s \in DOMAIN store : \A u \in UrlCategories :
        LET outcomes == { PostOutcome(store[s], u, f) : f \in Forms }
        IN /\ Cardinality(outcomes) = 1
           /\ \A o \in outcomes : \A c \in Categories :
                 o[3][c][1] - LevelOf(store[s], c)
                    \in (IF str_lower(u) = c THEN {0, 1} ELSE {0})

\* a POST that sent level=3 from level 0 was recorded as level 1
C5_Witness ==
    \E c \in Categories :
        /\ IsPostOf(lastReq, c)
        /\ <<"l","e","v","e","l">> \in DOMAIN lastReq.form
        /\ lastReq.form[<<"l","e","v","e","l">>] = <<"3">>
        /\ LevelOf(lastReq.read, c) = 0
        /\ LevelOf(store[lastReq.client], c) = 1
        /\ RecordedLevels(store[lastReq.client], c) = <<1>>

\* C6: a GET or POST to /survey/<category> of a category whose level is
\* its number of levels is answered by the redirect to / and leaves the
\* stored progress of every category as it was.
C6_CompletedIsTerminal ==
    [][\A s \in DOMAIN store : \A c \in Categories :
         (/\ lastReq'.client = s
          /\ IsSurveyOf(lastReq', c)
          /\ LevelOf(store[s], c) = TotalLevels) =>
            /\ lastResp' = [kind |-> "redirect", to |-> "index"]
            /\ store' = store]_vars

\* a GET to a completed category was redirected
C6_Witness ==
    \E c \in Categories :
        /\ IsSurveyOf(lastReq, c)
        /\ lastReq.method = "GET"
        /\ LevelOf(lastReq.read, c) = TotalLevels
        /\ lastResp = [kind |-> "redirect", to |-> "index"]
        /\ store[lastReq.client] = lastReq.read

\* C7: a request to /survey/<name> whose name is not configured is answered
\* by the redirect to / and leaves the store as it was, so a session
\* without a record still has none; a stored record never has a key other
\* than the three configured categories.
C7_UnknownCategoryNoEffect ==
    /\ [](\A s \in DOMAIN store :
            HasProgress(store[s]) =>
               DOMAIN store[s]["progress"] = {spiritual, physical, mental})
    /\ [][(/\ lastReq'.route = "survey"
           /\ str_lower(lastReq'.category)
                 \notin {spiritual, physical, mental}) =>
             /\ lastResp' = [kind |-> "redirect", to |-> "index"]
             /\ store' = store]_vars

\* after two requests, the last one a POST to an unconfigured category, the
\* session still has no record
C7_Witness ==
    /\ nreq >= 2
    /\ lastReq.route = "survey"
    /\ lastReq.method = "POST"
    /\ str_lower(lastReq.category) \notin {spiritual, physical, mental}
    /\ store[lastReq.client] = EmptyDict

ZeroEntry == [level |-> 0, responses |-> <<>>, badges |-> <<>>]

\* C8: when a request ends, the store of its client holds exactly the
\* dictionary of that request if it modified its session (whatever another
\* request of the client wrote since this one read) and is unchanged
\* otherwise, so after the request that ended last the store is what that
\* request computed from the dictionary it had read; the store of a client
\* changes at no other step, and a request reads only the store of its own
\* client.
C8_LastWriteWins ==
    /\ [](lastReq.route # "none" =>
            LET out == dispatch(open_session(lastReq.read), lastReq)
            IN store[lastReq.client] = IF out.session.modified
                                       THEN out.session.data
                                       ELSE lastReq.replaced)
    /\ [][/\ \A i \in DOMAIN inflight \ DOMAIN inflight' :
               LET r == inflight[i]
               IN /\ store'[r.client] = IF r.session.modified
                                        THEN r.session.data
                                        ELSE store[r.client]
                  /\ \A s \in DOMAIN store \ {r.client} :
                        store'[s] = store[s]
          /\ DOMAIN inflight \subseteq DOMAIN inflight' => store' = store
          /\ \A i \in DOMAIN inflight' \ DOMAIN inflight :
               inflight'[i].session.data = store[inflight'[i].client]]_vars

\* a request overwrote a store that another request of its client had
\* advanced since this one read it: the advance is gone
C8_Witness ==
    /\ inflight = <<>>
    /\ lastReq.route = "survey"
    /\ lastReq.method = "POST"
    /\ lastReq.replaced # lastReq.read
    /\ store[lastReq.client] # lastReq.replaced
    /\ \E c \in Categories :
          LevelOf(lastReq.replaced, c) > LevelOf(store[lastReq.client], c)

\* C9: get_user_progress on a session without a record yields the record
\* with exactly the three configured categories, each at level 0 with no
\* responses and no badges; a GET that is the first access stores exactly
\* that record, and a POST that is the first access stores it with only the
\* posted category advanced.
C9_FirstAccessCreatesZeroRecord ==
    /\ [](\A s \in DOMAIN store :
            ~HasProgress(store[s]) =>
               get_user_progress(open_session(store[s])) =
                  [data |-> ("progress" :>
                      [c \in {spiritual, physical, mental} |-> ZeroEntry]),
                   modified |-> TRUE])
    /\ [][\A s \in DOMAIN store :
            (~HasProgress(store[s]) /\ lastReq'.client = s) =>
              LET known == lastReq'.route = "index"
                           \/ str_lower(lastReq'.category) \in Categories
              IN /\ HasProgress(store'[s]) = known
                 /\ known =>
                      /\ DOMAIN store'[s] = {"progress"}
                      /\ DOMAIN store'[s]["progress"]
                            = {spiritual, physical, mental}
                      /\ \A c \in Categories :
                            IF IsPostOf(lastReq', c)
                            THEN store'[s]["progress"][c].level = 1
                            ELSE store'[s]["progress"][c] = ZeroEntry]_vars

\* the first request of the session was a GET and left the zero record
C9_Witness ==
    /\ nreq = 1
    /\ lastReq.method = "GET"
    /\ lastReq.read = EmptyDict
    /\ HasProgress(store[lastReq.client])
    /\ \A c \in Categories : store[lastReq.client]["progress"][c] = ZeroEntry

\* C10: get_user_progress on a session that has a record returns the
\* session as it is, unmodified; a step changes a stored record only when
\* it is a POST to a category below its last level, so GET / and
\* GET /survey/<category> leave every stored record as it was.
C10_OnlyPostChangesRecord ==
    /\ [](\A s \in DOMAIN store :
            HasProgress(store[s]) =>
               get_user_progress(open_session(store[s]))
                  = [data |-> store[s], modified |-> FALSE])
    /\ [][\A s \in DOMAIN store :
            (HasProgress(store[s]) /\ store'[s] # store[s]) =>
               /\ lastReq'.client = s
               /\ \E c \in Categories :
                     /\ IsPostOf(lastReq', c)
                     /\ LevelOf(store[s], c) < TotalLevels]_vars

\* a GET of a survey page and a GET of / were served after a submission
\* and the record is as the submission left it
C10_Witness ==
    /\ nreq >= 3
    /\ lastReq.route = "index"
    /\ lastResp.kind = "index"
    /\ \E c \in Categories : LevelOf(lastReq.read, c) = 1
    /\ store[lastReq.client] = lastReq.read

\* the key of the i-th entry of the summary, as the table orders them
SummaryKeys == <<spiritual, physical, mental>>

\* C11: in every summary served, percent_complete of every category is
\* floor(100 * level / 3) of its stored level, that is 0, 33, 66 and 100
\* for the levels 0, 1, 2 and 3.
C11_PercentIsFloor ==
    lastResp.kind = "index" =>
        \A i \in 1..3 :
            LET info == lastResp.categories_info[i]
                level == LevelOf(store[lastReq.client], SummaryKeys[i])
            IN /\ info.key = SummaryKeys[i]
               /\ info.percent_complete = (100 * level) \div 3
               /\ info.percent_complete = <<0, 33, 66, 100>>[level + 1]

\* a summary showed 66 for one category and 33 for another
C11_Witness ==
    /\ lastResp.kind = "index"
    /\ \E i, j \in 1..3 :
          /\ lastResp.categories_info[i].percent_complete = 66
          /\ lastResp.categories_info[j].percent_complete = 33

\* the form field of the question at position i (1-based) of a level
AnswerField == << <<"q","0">>, <<"q","1">> >>

\* C12: the record that a POST below the last level appends holds one pair per
\* question of the resolved level, in the configured order; the answer at
\* position i is the form field q<i-1> when the form has it and the empty
\* string otherwise; no other field of the form is recorded, and the
\* submission is recorded whatever fields are missing.
C12_AnswersByPosition ==
    [][\A s \in DOMAIN store : \A c \in Categories :
         LET n == LevelOf(store[s], c)
         IN (lastReq'.client = s /\ IsPostOf(lastReq', c) /\ n < TotalLevels) =>
              LET form == lastReq'.form
                  asked == SURVEY_QUESTIONS[c][n + 1].questions
                  after == ResponsesOf(store'[s], c)
              IN /\ Len(after) = n + 1
                 /\ SubSeq(after, 1, n) = ResponsesOf(store[s], c)
                 /\ DOMAIN after[n + 1] = {"level", "answers"}
                 /\ after[n + 1].answers =
                      [i \in 1..Len(asked) |->
                         [question |-> asked[i],
                          answer |-> IF AnswerField[i] \in DOMAIN form
                                     THEN form[AnswerField[i]]
                                     ELSE <<>>]]]_vars

\* a POST that sent q1 and an extra field, and no q0, was recorded with an
\* empty first answer and the second answer as sent
C12_Witness ==
    \E c \in Categories :
        /\ IsPostOf(lastReq, c)
        /\ DOMAIN lastReq.form = {<<"q","1">>, <<"l","e","v","e","l">>}
        /\ LevelOf(lastReq.read, c) = 1
        /\ LET rec == ResponsesOf(store[lastReq.client], c)[2]
           IN /\ rec.answers[1].answer = <<>>
              /\ rec.answers[2].answer = <<"3">>
              /\ Len(rec.answers) = 2

\* C13: a GET /survey/<category> of a configured category whose level is
\* n < 3 is answered by the survey page of level n+1 with exactly the
\* configured questions of that level, whatever fields the client sends,
\* and changes no level; when n = 3 it is answered by the redirect to /.
C13_GetServesNextLevel ==
    [][\A s \in DOMAIN store : \A c \in Categories :
         LET n == LevelOf(store[s], c)
         IN (/\ lastReq'.client = s
             /\ IsSurveyOf(lastReq', c)
             /\ lastReq'.method = "GET") =>
              /\ n < TotalLevels =>
                    lastResp' = [kind |-> "survey", category |-> c,
                                 level |-> n + 1,
                                 questions |->
                                    SURVEY_QUESTIONS[c][n + 1].questions]
              /\ n = TotalLevels =>
                    lastResp' = [kind |-> "redirect", to |-> "index"]
              /\ \A d \in Categories :
                    LevelOf(store'[s], d) = LevelOf(store[s], d)]_vars

\* after one POST a GET that sent level=3 was served level 2, the level
\* that follows the completed one
C13_Witness ==
    \E c \in Categories :
        /\ IsSurveyOf(lastReq, c)
        /\ lastReq.method = "GET"
        /\ <<"l","e","v","e","l">> \in DOMAIN lastReq.form
        /\ lastReq.form[<<"l","e","v","e","l">>] = <<"3">>
        /\ LevelOf(lastReq.read, c) = 1
        /\ lastResp.kind = "survey"
        /\ lastResp.level = 2
        /\ lastResp.questions = SURVEY_QUESTIONS[c][2].questions

\* C14: in every reachable state the badges of a category are empty while
\* its level is below 3 and are exactly the one badge "<Category> Champion"
\* when its level is 3.
C14_BadgesMatchCompletion ==
    \A s \in DOMAIN store : \A c \in Categories :
        HasProgress(store[s]) =>
            LET entry == store[s]["progress"][c]
            IN /\ entry.level < TotalLevels => entry.badges = <<>>
               /\ entry.level = TotalLevels =>
                     entry.badges = <<Champion[c]>>
               /\ Len(entry.badges) \in {0, 1}

\* a POST to a category that already held its badge left the one badge
C14_Witness ==
    \E c \in Categories :
        /\ IsPostOf(lastReq, c)
        /\ BadgesOf(lastReq.read, c) = <<Champion[c]>>
        /\ BadgesOf(store[lastReq.client], c) = <<Champion[c]>>

\* C15: for every category, a summary that was served shows next_level None
\* exactly when a request to /survey/<category> made next is redirected,
\* which is when the level is 3; otherwise it shows level + 1, the level
\* that a GET presents and that a POST records.
C15_SummaryAgreesWithSurvey ==
    lastResp.kind = "index" =>
        \A i \in 1..3 :
            LET stored == store[lastReq.client]
                c == SummaryKeys[i]
                offered == lastResp.categories_info[i].next_level
                got == survey(open_session(stored), "GET", c, NoForm).response
                after == save_session(stored,
                            survey(open_session(stored), "POST", c,
                                   NoForm).session)
            IN /\ lastResp.categories_info[i].key = c
               /\ (offered = None)
                     <=> (got = [kind |-> "redirect", to |-> "index"])
               /\ (offered = None) <=> (LevelOf(stored, c) = TotalLevels)
               /\ offered = None => after = stored
               /\ offered # None =>
                     /\ offered = <<LevelOf(stored, c) + 1>>
                     /\ got.kind = "survey"
                     /\ offered = <<got.level>>
                     /\ offered = <<LevelOf(after, c)>>
                     /\ offered = <<ResponsesOf(after, c)[got.level].level>>

\* a summary showed no next level for a completed category and level 1
\* for another
C15_Witness ==
    /\ lastResp.kind = "index"
    /\ \E i, j \in 1..3 :
          /\ lastResp.categories_info[i].next_level = None
          /\ LevelOf(store[lastReq.client], SummaryKeys[i]) = TotalLevels
          /\ lastResp.categories_info[j].next_level = <<1>>

\* C16: in every reachable state the k-th response record of a category
\* has level k and pairs the configured questions of level k in their
\* order.
C16_ResponsesInLevelOrder ==
    \A s \in DOMAIN store : \A c \in Categories :
        \A k \in 1..Len(ResponsesOf(store[s], c)) :
            LET rec == ResponsesOf(store[s], c)[k]
            IN /\ rec.level = k
               /\ [i \in 1..Len(rec.answers) |-> rec.answers[i].question]
                     = SURVEY_QUESTIONS[c][k].questions

\* a category holds the records of its three levels
C16_Witness ==
    \E s \in DOMAIN store : \E c \in Categories :
        /\ RecordedLevels(store[s], c) = <<1, 2, 3>>
        /\ ResponsesOf(store[s], c)[3].answers[2].question
              = SURVEY_QUESTIONS[c][3].questions[2]

\* the entry of a category in a stored dictionary; a dictionary without a
\* record counts as the record of a fresh session
EntryOf(dict, c) ==
    IF HasProgress(dict) THEN dict["progress"][c] ELSE ZeroEntry

\* C17: a POST /survey/<category> leaves level, responses and badges of
\* every other category as they were, and in no reachable state do the
\* badges of a category hold the badge named for another category.
C17_PostTouchesOneCategory ==
    /\ [](\A s \in DOMAIN store : \A c, d \in Categories :
            c # d =>
               \A k \in 1..Len(BadgesOf(store[s], c)) :
                   BadgesOf(store[s], c)[k] # Champion[d])
    /\ [][(lastReq'.route = "survey" /\ lastReq'.method = "POST") =>
             \A d \in Categories \ {str_lower(lastReq'.category)} :
                 EntryOf(store'[lastReq'.client], d)
                    = EntryOf(store[lastReq'.client], d)]_vars

\* a POST completed one category while another stayed at the level 1 it
\* had before
C17_Witness ==
    \E c, d \in Categories :
        /\ c # d
        /\ IsPostOf(lastReq, c)
        /\ LevelOf(lastReq.read, c) = TotalLevels - 1
        /\ BadgesOf(store[lastReq.client], c) = <<Champion[c]>>
        /\ LevelOf(lastReq.read, d) = 1
        /\ EntryOf(store[lastReq.client], d) = EntryOf(lastReq.read, d)
        /\ BadgesOf(store[lastReq.client], d) = <<>>

\* C18: whatever the interleaving of the requests, every record the store
\* holds has, for every category, a level between 0 and 3, as many
\* responses as its level, and badges that are empty below level 3 and
\* hold at most one badge at level 3.
C18_RaceKeepsRecordInvariants ==
    \A s \in DOMAIN store : \A c \in Categories :
        HasProgress(store[s]) =>
            LET entry == store[s]["progress"][c]
            IN /\ entry.level >= 0
               /\ entry.level <= TotalLevels
               /\ Len(entry.responses) = entry.level
               /\ Len(entry.badges) <= 1
               /\ entry.badges # <<>> => entry.level = TotalLevels

\* two requests of one client both submitted the last level of a category
\* from the same read; the second write replaced the first and the record
\* holds three responses and one badge
C18_Witness ==
    /\ inflight = <<>>
    /\ nreq = 2
    /\ \E c \in Categories :
          /\ IsPostOf(lastReq, c)
          /\ LevelOf(lastReq.read, c) = TotalLevels - 1
          /\ LevelOf(lastReq.replaced, c) = TotalLevels
          /\ LevelOf(store[lastReq.client], c) = TotalLevels
          /\ Len(ResponsesOf(store[lastReq.client], c)) = TotalLevels
          /\ Len(BadgesOf(store[lastReq.client], c)) = 1

\* C19: the levels of every configured category are numbered 1, 2, 3 in
\* the order of the table and each has questions; so in every reachable
\* state the lookup of a category's resolved level, when that level is at
\* most 3, finds the entry of that level with a non-empty question list,
\* and a GET of a category below level 3 is never answered by the
\* redirect.
C19_LookupAlwaysFinds ==
    /\ [](\A s \in DOMAIN store : \A c \in Categories :
            LET current_level == LevelOf(store[s], c) + 1
            IN /\ \A k \in 1..Len(SURVEY_QUESTIONS[c]) :
                     SURVEY_QUESTIONS[c][k].level = k
               /\ current_level <= TotalLevels =>
                     /\ level_lookup(c, current_level) # <<>>
                     /\ level_lookup(c, current_level).level = current_level
                     /\ Len(level_lookup(c, current_level).questions) > 0)
    /\ [][\A c \in Categories :
            (/\ IsSurveyOf(lastReq', c)
             /\ lastReq'.method = "GET"
             /\ LevelOf(store[lastReq'.client], c) < TotalLevels) =>
               lastResp'.kind = "survey"]_vars

\* a GET was served the page of the last level, with its two questions
C19_Witness ==
    /\ lastReq.route = "survey"
    /\ lastReq.method = "GET"
    /\ lastResp.kind = "survey"
    /\ lastResp.level = TotalLevels
    /\ Len(lastResp.questions) = 2

====
